---- MODULE Spec2Model ----
(***************************************************************************)
(* Reaction-path kinetics integrator of Reaktoro (KineticPath::Impl).      *)
(*                                                                         *)
(* The orchestrator splits the species of a chemical system into an        *)
(* equilibrium and a kinetic subset, integrates u = [be ; nk] with a stiff *)
(* ODE integrator and, in every right-hand-side and Jacobian evaluation,   *)
(* nests an equilibrium resolve that mutates the caller's ChemicalState.   *)
(*                                                                         *)
(* Amounts are doubles.  Finite doubles are modelled by integers in units  *)
(* of 5e-51 mol, so that the floor threshold 1e-50 is the integer 2; the   *)
(* non-finite doubles are the three values NaN, PosInf and NegInf.         *)
(***************************************************************************)
EXTENDS Integers, Sequences, FiniteSets, TLC

(***************************************************************************)
(* Bounds of the model                                                     *)
(***************************************************************************)
\* largest finite amount a caller, the integrator or the equilibrium
\* provider produces (units of 5e-51 mol)
MaxAmount == 2
\* largest time the integrator is driven to
MaxTime == 2
\* largest number of step/solve calls the caller makes
MaxCalls == 1

(***************************************************************************)
(* IEEE doubles                                                            *)
(***************************************************************************)
NaN == 9000
PosInf == 9001
NegInf == 9002

NonFinite == {NaN, PosInf, NegInf}

isfinite(x) == x \notin NonFinite

dSign(x) == IF x = PosInf THEN 1 ELSE IF x = NegInf THEN -1
            ELSE IF x > 0 THEN 1 ELSE IF x < 0 THEN -1 ELSE 0

dAdd(a, b) ==
    IF a = NaN \/ b = NaN THEN NaN
    ELSE IF a \in NonFinite /\ b \in NonFinite THEN (IF a = b THEN a ELSE NaN)
    ELSE IF a \in NonFinite THEN a
    ELSE IF b \in NonFinite THEN b
    ELSE a + b

dMul(a, b) ==
    IF a = NaN \/ b = NaN THEN NaN
    ELSE IF a \in NonFinite \/ b \in NonFinite
         THEN (IF dSign(a) * dSign(b) = 0 THEN NaN
               ELSE IF dSign(a) * dSign(b) > 0 THEN PosInf ELSE NegInf)
    ELSE a * b

\* x < y on doubles: every comparison with NaN is false
dLess(x, y) ==
    IF x = NaN \/ y = NaN THEN FALSE
    ELSE IF x = y THEN FALSE
    ELSE IF x = NegInf \/ y = PosInf THEN TRUE
    ELSE IF x = PosInf \/ y = NegInf THEN FALSE
    ELSE x < y

dAbs(x) == IF x = NaN THEN NaN
           ELSE IF x \in NonFinite THEN PosInf
           ELSE IF x < 0 THEN -x ELSE x

(***************************************************************************)
(* Dense vectors and matrices (Eigen)                                      *)
(* A vector is a sequence; a matrix is [nr, nc, d] with d[i][j].           *)
(***************************************************************************)
Mat(nr, nc, d) == [nr |-> nr, nc |-> nc, d |-> d]

FromRows(rs) == [nr |-> Len(rs), nc |-> Len(rs[1]), d |-> rs]

EmptyMatrix == [nr |-> 0, nc |-> 0, d |-> << >>]

RECURSIVE dDot(_, _, _)
dDot(a, b, k) == IF k = 0 THEN 0 ELSE dAdd(dDot(a, b, k - 1), dMul(a[k], b[k]))

MatCol(X, j) == [i \in 1..X.nr |-> X.d[i][j]]

tr(X) == Mat(X.nc, X.nr, [i \in 1..X.nc |-> [j \in 1..X.nr |-> X.d[j][i]]])

MatMul(X, Y) ==
    Mat(X.nr, Y.nc, [i \in 1..X.nr |-> [j \in 1..Y.nc |-> dDot(X.d[i], MatCol(Y, j), X.nc)]])

MatVec(X, v) == [i \in 1..X.nr |-> dDot(X.d[i], v, X.nc)]

\* cols(M, indices): the columns of M selected by a list of indices
cols(X, idx) == Mat(X.nr, Len(idx), [i \in 1..X.nr |-> [j \in 1..Len(idx) |-> X.d[i][idx[j]]]])

\* rows(v, indices): the entries of the vector v selected by a list of indices
rows(v, idx) == [k \in 1..Len(idx) |-> v[idx[k]]]

\* [X ; Y]: the rows of X on top of the rows of Y
VStack(X, Y) ==
    Mat(X.nr + Y.nr, X.nc,
        [i \in 1..(X.nr + Y.nr) |->
            [j \in 1..X.nc |-> IF i <= X.nr THEN X.d[i][j] ELSE Y.d[i - X.nr][j]]])

\* [X | Y]: the columns of X left of the columns of Y
\* the two column blocks in the other order
HStackSwapped(X, Y) ==
    Mat(X.nr, X.nc + Y.nc,
        [i \in 1..X.nr |->
            [j \in 1..(X.nc + Y.nc) |-> IF j <= Y.nc THEN Y.d[i][j] ELSE X.d[i][j - Y.nc]]])

HStack(X, Y) ==
    Mat(X.nr, X.nc + Y.nc,
        [i \in 1..X.nr |->
            [j \in 1..(X.nc + Y.nc) |-> IF j <= X.nc THEN X.d[i][j] ELSE Y.d[i][j - X.nc]]])

ZeroMatrix(nr, nc) == Mat(nr, nc, [i \in 1..nr |-> [j \in 1..nc |-> 0]])

\* v.segment(start, n) read: the entries start+1 .. start+n of v (0-based start)
segment(v, start, n) == [k \in 1..n |-> v[start + k]]

\* v.segment(start, n) = w: v with the entries start+1 .. start+n replaced by w
segmentAssign(v, start, w) ==
    [k \in 1..Len(v) |-> IF k > start /\ k <= start + Len(w) THEN w[k - start] ELSE v[k]]

\* the sorted list of the members of a set of indices
RECURSIVE SortedSeq(_)
SortedSeq(S) ==
    IF S = {} THEN << >>
    ELSE LET m == CHOOSE x \in S : \A y \in S : x <= y
         IN <<m>> \o SortedSeq(S \ {m})

Range(s) == {s[k] : k \in 1..Len(s)}

(***************************************************************************)
(* The chemical system, the reaction system and the partitions             *)
(*                                                                         *)
(* Three species A = X, B = XY, C = Y over the elements X and Y, and the   *)
(* two reactions A + C -> B and B -> A + C.                                *)
(***************************************************************************)
speciesNames == <<"A", "B", "C">>

\* system.formulaMatrix(): one row per element, one column per species
formulaMatrix == FromRows(<< <<1, 1, 0>>, <<0, 1, 1>> >>)

\* reactions.stoichiometricMatrix(): one row per reaction, one column per species
stoichiometricMatrix == FromRows(<< <<-1, 1, -1>>, <<1, -1, 1>> >>)

numSpecies == formulaMatrix.nc
numElements == formulaMatrix.nr
numReactions == stoichiometricMatrix.nr

\* the elements that occur in some species of a set of species
ElementsOf(S) == {j \in 1..numElements : \E i \in S : formulaMatrix.d[j][i] # 0}

\* Partition: the split of the species into equilibrium and kinetic species,
\* given by the set of kinetic species
Partition(kinetic) ==
    LET ie == SortedSeq((1..numSpecies) \ kinetic)
        ik == SortedSeq(kinetic)
        je == SortedSeq(ElementsOf((1..numSpecies) \ kinetic))
        jk == SortedSeq(ElementsOf(kinetic))
    IN [kinetic |-> kinetic,
        indicesEquilibriumSpecies |-> ie,
        indicesKineticSpecies |-> ik,
        indicesEquilibriumElements |-> je,
        indicesKineticElements |-> jk,
        formulaMatrixEquilibriumSpecies |->
            Mat(Len(je), Len(ie),
                [i \in 1..Len(je) |-> [j \in 1..Len(ie) |-> formulaMatrix.d[je[i]][ie[j]]]])]

\* Partition(system): every species is an equilibrium species
DefaultPartition == Partition({})

\* the partitions a caller configures
KineticSets == {{}, {3}}

\* the specification strings "kinetic = <names>" a caller passes
PartitionStrings == {<<"C">>, <<"Q">>}

indexSpecies(name) ==
    IF \E i \in 1..numSpecies : speciesNames[i] = name
    THEN CHOOSE i \in 1..numSpecies : speciesNames[i] = name
    ELSE numSpecies + 1

\* Partition(system, string): fails when a name is not a species of the system
PartitionStringValid(names) == \A k \in 1..Len(names) : indexSpecies(names[k]) <= numSpecies

PartitionFromString(names) == Partition({indexSpecies(names[k]) : k \in 1..Len(names)})

(***************************************************************************)
(* State                                                                   *)
(***************************************************************************)
VARIABLES
    kp,      \* the members of KineticPath::Impl
    states,  \* the caller's ChemicalState objects: temperature, pressure, amounts
    pc,      \* where the caller is: "idle", inside the integrator, or "aborted"
    ctx,     \* the step/solve call in progress or last finished
    t,       \* the caller's time variable
    ncalls,  \* the number of step/solve calls made so far
    ev,      \* the last callback evaluation of the integrator call in progress,
             \* or the one that threw out of the last step/solve call
    eq,      \* the last call of the equilibrium provider in the last API call
    output,  \* the members of a ChemicalOutput::Impl and what it wrote last
    phase    \* the activity-model table of an AqueousPhase

vars == <<kp, states, pc, ctx, t, ncalls, ev, eq, output, phase>>

\* the variables of the KineticPath and its caller
kineticVars == <<kp, states, pc, ctx, t, ncalls, ev, eq>>

\* a ChemicalOutput after ChemicalOutput(): no terminal output, no file name,
\* no data, no header, the data file closed; headerCalled records whether
\* header() was ever called, written the last header row and the last data
\* row that reached the file or the terminal
ChemicalOutputImpl ==
    [terminal |-> FALSE, filename |-> "", data |-> << >>, header |-> << >>,
     datafile |-> [is_open |-> FALSE],
     headerCalled |-> FALSE,
     written |-> [header |-> << >>, row |-> << >>, opened |-> FALSE, updated |-> FALSE],
     call |-> [op |-> "none", status |-> "none"]]

\* no AqueousPhase was constructed
NoPhase == [constructed |-> FALSE]

StateIds == {1, 2}

\* temperatures and pressures of a chemical state
TPVals == {1, 2}

\* the value of a member that was never assigned
Indeterminate == 0

Vectors(n, D) == [1..n -> D]

\* the vectors that the integrator returns: finite amounts in each component
UReturn(i) == IF i = 1 THEN {MaxAmount} ELSE IF i = 2 THEN {0, 1} ELSE {MaxAmount}

ReturnVectors(n) == {u \in Vectors(n, 0..MaxAmount) : \A i \in 1..n : u[i] \in UReturn(i)}

\* values of a read past the end of a vector
GarbageVals == {0, NaN}

\* the compositions of the first chemical state when the caller creates it
InitialCompositions == {<<1, 1, 1>>, <<MaxAmount, 0, 0>>}

NoEval == [op |-> "none"]
NoEq == [called |-> FALSE]
NoCall == [op |-> "none", status |-> "none"]

(***************************************************************************)
(* Collaborators: ChemicalState, EquilibriumPath, ODEPath                  *)
(***************************************************************************)
\* state.setSpeciesAmounts(n, indices): n[indices[k]] = values[k]
setSpeciesAmounts(n, values, indices) ==
    [i \in 1..Len(n) |->
        IF \E k \in 1..Len(indices) : indices[k] = i
        THEN values[CHOOSE k \in 1..Len(indices) : indices[k] = i]
        ELSE n[i]]

\* equilibrium.solve(state, be): the compositions of the equilibrium species
\* whose elemental abundance is the target be; none when be cannot be met
EquilibriumSolutions(k, be) ==
    IF \E i \in 1..Len(be) : ~isfinite(be[i]) THEN {}
    ELSE {x \in Vectors(k.Ne, 0..MaxAmount) : MatVec(k.We, x) = be}

\* equilibrium.dndb(state): the sensitivity of the equilibrium amounts, Ne x Ee
dndb(k, n) ==
    Mat(k.Ne, k.Ee,
        [i \in 1..k.Ne |->
            [j \in 1..k.Ee |-> IF dLess(0, n[k.ispecies_e[i]]) THEN i + j ELSE 0]])

\* reactions.rates(T, P, n, a).val: A + C -> B proceeds at a rate set by the
\* temperature while A is present (zeroth order in the solid C), B -> A + C at
\* a rate set by the pressure while B is present
rates(T, P, n) ==
    <<IF dLess(0, n[1]) THEN T ELSE 0, IF dLess(0, n[2]) THEN P ELSE 0>>

\* reactions.rates(T, P, n, a).ddn: the Jacobian of the rates, M x N
rateJacobian(T, P, n) ==
    Mat(numReactions, numSpecies,
        [i \in 1..numReactions |->
            [j \in 1..numSpecies |->
                IF dLess(0, n[j]) THEN (IF i = 1 THEN T ELSE P) + j ELSE 0]])

\* the ODE integrator before ode.setProblem / ode.initialize: whether it was
\* initialized, the number of equations of its problem, the ChemicalState
\* that the callbacks of its problem captured, and its start time
ODEPath0 == [initialized |-> FALSE, neq |-> 0, state |-> 0, t0 |-> 0]

(***************************************************************************)
(* KineticPath::Impl                                                       *)
(***************************************************************************)
\* a coefficient matrix with the two blocks in the other order
CoefficientMatrixSwapped(We, Se, Sk) == VStack(tr(Sk), MatMul(We, tr(Se)))

\* the coefficient matrix A = [We * tr(Se) ; tr(Sk)]
CoefficientMatrix(We, Se, Sk) == VStack(MatMul(We, tr(Se)), tr(Sk))

\* a setPartition that takes the counts and We before it assigns the index sets
setPartitionStaleCounts(k, partition_) ==
    LET ie == partition_.indicesEquilibriumSpecies
        ik == partition_.indicesKineticSpecies
        je == partition_.indicesEquilibriumElements
        jk == partition_.indicesKineticElements
        We_ == partition_.formulaMatrixEquilibriumSpecies
        Se_ == cols(stoichiometricMatrix, ie)
        Sk_ == cols(stoichiometricMatrix, ik)
    IN [k EXCEPT
            !.partition = partition_.kinetic,
            !.ispecies_e = ie, !.ispecies_k = ik,
            !.ielements_e = je, !.ielements_k = jk,
            !.Ne = Len(k.ispecies_e), !.Nk = Len(k.ispecies_k),
            !.Ee = Len(je), !.Ek = Len(jk),
            !.We = k.We, !.Se = Se_, !.Sk = Sk_,
            !.A = CoefficientMatrix(We_, Se_, Sk_),
            !.R = ZeroMatrix(numReactions, Len(je) + Len(ik))]

setPartition(k, partition_) ==
    LET ie == partition_.indicesEquilibriumSpecies
        ik == partition_.indicesKineticSpecies
        je == partition_.indicesEquilibriumElements
        jk == partition_.indicesKineticElements
        We_ == partition_.formulaMatrixEquilibriumSpecies
        Se_ == cols(stoichiometricMatrix, ie)
        Sk_ == cols(stoichiometricMatrix, ik)
    IN [k EXCEPT
            !.partition = partition_.kinetic,
            !.ispecies_e = ie, !.ispecies_k = ik,
            !.ielements_e = je, !.ielements_k = jk,
            !.Ne = Len(ie), !.Nk = Len(ik),
            !.Ee = Len(je), !.Ek = Len(jk),
            !.We = We_, !.Se = Se_, !.Sk = Sk_,
            !.A = CoefficientMatrix(We_, Se_, Sk_),
            !.R = ZeroMatrix(numReactions, Len(je) + Len(ik))]

\* the members before the constructor body runs.  The members ne, nk, be, Be,
\* Re and Rk are assigned in every function that reads them before they are
\* read, and so are the entries of R: they are the LET definitions of the
\* operations below, and R is kept with its shape
Members0 ==
    [partition |-> {}, options |-> [output |-> [active |-> FALSE]], ode |-> ODEPath0,
     ispecies_e |-> << >>, ispecies_k |-> << >>, ielements_e |-> << >>, ielements_k |-> << >>,
     Ne |-> Indeterminate, Nk |-> Indeterminate, Ee |-> Indeterminate, Ek |-> Indeterminate,
     We |-> EmptyMatrix, Se |-> EmptyMatrix, Sk |-> EmptyMatrix, A |-> EmptyMatrix,
     T |-> Indeterminate, P |-> Indeterminate,
     benk |-> << >>,
     r |-> [val |-> << >>, ddn |-> EmptyMatrix],
     R |-> EmptyMatrix]

\* Impl(reactions): setPartition(Partition(system))
Impl == setPartition(Members0, DefaultPartition)

setOptions(k, options_) == [k EXCEPT !.options = options_]

\* an initialize that assembles benk without the elemental abundances We * ne
initializeWithoutBe(k, st, sid, tstart) ==
    [k EXCEPT
        !.T = st.T, !.P = st.P,
        !.benk = [i \in 1..k.Ee |-> 0] \o rows(st.n, k.ispecies_k),
        !.ode = [initialized |-> TRUE, neq |-> k.Ee + k.Nk, state |-> sid,
                 t0 |-> tstart]]

\* an initialize that does not read the temperature and pressure of the state
initializeWithoutTP(k, st, sid, tstart) ==
    [k EXCEPT
        !.benk = MatVec(k.We, rows(st.n, k.ispecies_e)) \o rows(st.n, k.ispecies_k),
        !.ode = [initialized |-> TRUE, neq |-> k.Ee + k.Nk, state |-> sid,
                 t0 |-> tstart]]

\* initialize(state, tstart), st the ChemicalState number sid
initialize(k, st, sid, tstart) ==
    LET ne_ == rows(st.n, k.ispecies_e)
        nk_ == rows(st.n, k.ispecies_k)
        benk_ == MatVec(k.We, ne_) \o nk_
    IN [k EXCEPT
            !.T = st.T, !.P = st.P,
            !.benk = benk_,
            !.ode = [initialized |-> TRUE, neq |-> k.Ee + k.Nk, state |-> sid,
                     t0 |-> tstart]]

(***************************************************************************)
(* Initial state: a freshly constructed KineticPath and two chemical       *)
(* states owned by the caller                                              *)
(***************************************************************************)
Init ==
    /\ kp = Impl
    /\ \E n1 \in InitialCompositions :
         states = [sid \in StateIds |->
                     IF sid = 1 THEN [T |-> 2, P |-> 1, n |-> n1]
                     ELSE [T |-> 1, P |-> 2, n |-> <<0, 1, MaxAmount>>]]
    /\ pc = "idle"
    /\ ctx = NoCall
    /\ t = 0
    /\ ncalls = 0
    /\ ev = NoEval
    /\ eq = NoEq
    /\ output = ChemicalOutputImpl
    /\ phase = NoPhase

(***************************************************************************)
(* Configuration calls                                                     *)
(***************************************************************************)
CallSetOptions ==
    /\ pc = "idle"
    /\ \E active \in BOOLEAN : kp' = setOptions(kp, [output |-> [active |-> active]])
    /\ ctx' = [op |-> "setOptions", status |-> "returned"]
    /\ ev' = NoEval
    /\ eq' = NoEq
    /\ UNCHANGED <<states, pc, t, ncalls>>
    /\ UNCHANGED <<output, phase>>

CallSetPartition ==
    /\ pc = "idle"
    /\ \E kinetic \in KineticSets : kp' = setPartition(kp, Partition(kinetic))
    /\ ctx' = [op |-> "setPartition", status |-> "returned"]
    /\ ev' = NoEval
    /\ eq' = NoEq
    /\ UNCHANGED <<states, pc, t, ncalls>>
    /\ UNCHANGED <<output, phase>>

\* a setPartition(std::string) that falls back to the partition without
\* kinetic species before it reports the failure
CallSetPartitionStringResets ==
    /\ pc = "idle"
    /\ \E names \in PartitionStrings :
         IF PartitionStringValid(names)
         THEN /\ kp' = setPartition(kp, PartitionFromString(names))
              /\ ctx' = [op |-> "setPartition", status |-> "returned"]
         ELSE /\ kp' = setPartition(kp, Partition({}))
              /\ ctx' = [op |-> "setPartition", status |-> "failed"]
    /\ ev' = NoEval
    /\ eq' = NoEq
    /\ UNCHANGED <<states, pc, t, ncalls>>
    /\ UNCHANGED <<output, phase>>

\* setPartition(std::string): Partition(system, partition) throws before
\* setPartition(const Partition&) is entered
CallSetPartitionString ==
    /\ pc = "idle"
    /\ \E names \in PartitionStrings :
         IF PartitionStringValid(names)
         THEN /\ kp' = setPartition(kp, PartitionFromString(names))
              /\ ctx' = [op |-> "setPartition", status |-> "returned"]
         ELSE /\ kp' = kp
              /\ ctx' = [op |-> "setPartition", status |-> "failed"]
    /\ ev' = NoEval
    /\ eq' = NoEq
    /\ UNCHANGED <<states, pc, t, ncalls>>
    /\ UNCHANGED <<output, phase>>

\* the caller changes the temperature and pressure of its first state
CallSetTemperaturePressure ==
    /\ pc = "idle"
    /\ \E T_ \in TPVals, P_ \in TPVals :
         /\ T_ # P_
         /\ states' = [states EXCEPT ![1].T = T_, ![1].P = P_]
    /\ UNCHANGED <<kp, pc, ctx, t, ncalls, ev, eq>>
    /\ UNCHANGED <<output, phase>>

\* an initialize that brings the state to equilibrium before it assembles benk
CallInitializeEquilibrates(S) ==
    /\ pc = "idle"
    /\ \E sid \in S :
         \E x \in EquilibriumSolutions(kp, MatVec(kp.We, rows(states[sid].n, kp.ispecies_e))) :
           /\ states' = [states EXCEPT ![sid].n = setSpeciesAmounts(states[sid].n, x, kp.ispecies_e)]
           /\ kp' = initialize(kp, states'[sid], sid, t)
           /\ ctx' = [op |-> "initialize", status |-> "returned", sid |-> sid,
                      t0 |-> t, u0 |-> kp'.benk, neq |-> kp'.ode.neq]
           /\ eq' = [called |-> TRUE, sid |-> sid,
                      be |-> MatVec(kp.We, rows(states[sid].n, kp.ispecies_e)),
                      nk |-> rows(states[sid].n, kp.ispecies_k), ok |-> TRUE, after |-> 0]
    /\ ev' = NoEval
    /\ UNCHANGED <<pc, t, ncalls>>
    /\ UNCHANGED <<output, phase>>

\* initialize(state, tstart) called by the caller
CallInitialize(S) ==
    /\ pc = "idle"
    /\ \E sid \in S :
         /\ kp' = initialize(kp, states[sid], sid, t)
         /\ ctx' = [op |-> "initialize", status |-> "returned", sid |-> sid,
                    t0 |-> t, u0 |-> kp'.benk, neq |-> kp'.ode.neq]
    /\ ev' = NoEval
    /\ eq' = NoEq
    /\ UNCHANGED <<states, pc, t, ncalls>>
    /\ UNCHANGED <<output, phase>>

(***************************************************************************)
(* Right-hand side and Jacobian callbacks                                  *)
(***************************************************************************)
\* the floor threshold 1.0e-50 in units of 5e-51 mol
Threshold == 2

\* the vectors u that the integrator proposes to the callbacks, cut to the
\* number of equations: amounts below the threshold, at the threshold and
\* negative, and the non-finite values NaN and Inf
TrialVectors(n) ==
    {SubSeq(u, 1, n) : u \in {<<Threshold - 1, Threshold - 1, Threshold - 1>>,
                              <<Threshold, Threshold - 1, Threshold - 1>>,
                              <<Threshold, Threshold - 1, Threshold>>,
                              <<Threshold, Threshold - 1, -(Threshold + 1)>>,
                              <<NaN, Threshold - 1, Threshold - 1>>,
                              <<Threshold, PosInf, Threshold - 1>>,
                              <<Threshold, Threshold - 1, PosInf>>}}

\* a segment that reaches past the end of the vector is undefined behaviour:
\* the build either stops at Eigen's index assertion or reads whatever
\* follows the vector in memory
InRange(v, start, n) == start + n <= Len(v)

segmentReads(v, start, n) ==
    IF InRange(v, start, n) THEN {segment(v, start, n)}
    ELSE {[i \in 1..n |-> IF start + i <= Len(v) THEN v[start + i] ELSE g[i]] :
            g \in Vectors(n, GarbageVals)}

\* a right-hand side without the check for non-finite values
noFinitenessCheck(u) == TRUE

\* the check for non-finite values in u
allFinite(u) == \A i \in 1..Len(u) : isfinite(u[i])

\* a right-hand side that leaves out the equilibrium-element rows
rhsKineticRowsOnly(k, rval) ==
    [i \in 1..k.Ee |-> 0] \o MatVec(tr(k.Sk), rval)

\* res.segment(0, Ee) = We * tr(Se) * r.val ; res.segment(Ee, Nk) = tr(Sk) * r.val
rhs(k, rval) == MatVec(MatMul(k.We, tr(k.Se)), rval) \o MatVec(tr(k.Sk), rval)

\* a clamp of every negative derivative, whatever the size of u[i]
clampEveryDecrease(u, res) ==
    [i \in 1..Len(u) |-> IF dLess(res[i], 0) THEN 0 ELSE res[i]]

\* the lower bound for the decrease: res[i] = 0 where |u[i]| < 1e-50 and res[i] < 0
floorClamp(u, res) ==
    [i \in 1..Len(u) |->
        IF dLess(dAbs(u[i]), Threshold) /\ dLess(res[i], 0) THEN 0 ELSE res[i]]

\* the vector res of the integrator after the two segment assignments: entries
\* past Ee + Nk keep what the integrator left there, writes past the end are lost
resAssigned(u, raw, g) ==
    [i \in 1..Len(u) |-> IF i <= Len(raw) THEN raw[i] ELSE g]

\* the record of a call equilibrium.solve(state, be): the state, the target,
\* the kinetic amounts the state held when the call was made, whether the
\* provider returned or threw, and the number of calls of the provider since
\* the integrator returned to step/solve
EqCall(k, sid, be, n, ok, after) ==
    [called |-> TRUE, sid |-> sid, be |-> be, nk |-> rows(n, k.ispecies_k), ok |-> ok,
     after |-> after]

\* an exception leaves step/solve through the integrator
Failed(c) == [op |-> c.op, status |-> "failed", sid |-> c.sid, n0 |-> c.n0]

\* a right-hand side that evaluates the rates on the composition it has
\* before the equilibrium resolve
functionRatesBeforeResolve ==
    /\ pc = "integrate"
    /\ \E u \in TrialVectors(kp.ode.neq) :
       LET sid == kp.ode.state
           st == states[sid]
       IN \/ /\ ~InRange(u, 0, kp.Ee + kp.Nk)
             /\ pc' = "aborted"
             /\ UNCHANGED <<kp, states, ctx, t, ncalls, ev, eq>>
          \/ \E be_ \in segmentReads(u, 0, kp.Ee), nk_ \in segmentReads(u, kp.Ee, kp.Nk) :
             LET n1 == setSpeciesAmounts(st.n, nk_, kp.ispecies_k)
                 e0 == [op |-> "function", u |-> u, sid |-> sid, be |-> be_, nk |-> nk_]
             IN IF ~allFinite(u)
                THEN /\ kp' = kp
                     /\ ev' = e0 @@ [ret |-> 1, threw |-> FALSE, eqCalled |-> FALSE,
                                     ratesCalled |-> FALSE]
                     /\ UNCHANGED <<states, pc, ctx, t, ncalls, eq>>
                ELSE \/ \* equilibrium.solve throws
                        /\ kp' = kp
                        /\ states' = [states EXCEPT ![sid].n = n1]
                        /\ eq' = EqCall(kp, sid, be_, n1, FALSE, 0)
                        /\ ev' = e0 @@ [ret |-> 0, threw |-> TRUE, eqCalled |-> TRUE,
                                        ratesCalled |-> FALSE]
                        /\ pc' = "idle"
                        /\ ctx' = Failed(ctx)
                        /\ UNCHANGED <<t, ncalls>>
                     \/ \E x \in EquilibriumSolutions(kp, be_), g \in GarbageVals :
                        LET n2 == setSpeciesAmounts(n1, x, kp.ispecies_e)
                            rval == rates(kp.T, kp.P, n1)
                            raw == rhs(kp, rval)
                            res == floorClamp(u, resAssigned(u, raw, g))
                        IN /\ kp' = [kp EXCEPT !.r = [val |-> rval,
                                                      ddn |-> rateJacobian(kp.T, kp.P, n2)]]
                           /\ states' = [states EXCEPT ![sid].n = n2]
                           /\ eq' = EqCall(kp, sid, be_, n1, TRUE, 0)
                           /\ ev' = e0 @@ [ret |-> 0, threw |-> FALSE, eqCalled |-> TRUE,
                                           ratesCalled |-> TRUE,
                                           T |-> kp.T, P |-> kp.P, n |-> n2, rval |-> rval,
                                           raw |-> raw, res |-> res]
                           /\ UNCHANGED <<pc, ctx, t, ncalls>>
    /\ UNCHANGED <<output, phase>>

\* function(state, t, u, res), called by the integrator on the state that
\* initialize bound into the callback
function ==
    /\ pc = "integrate"
    /\ \E u \in TrialVectors(kp.ode.neq) :
       LET sid == kp.ode.state
           st == states[sid]
       IN \/ /\ ~InRange(u, 0, kp.Ee + kp.Nk)
             /\ pc' = "aborted"
             /\ UNCHANGED <<kp, states, ctx, t, ncalls, ev, eq>>
          \/ \E be_ \in segmentReads(u, 0, kp.Ee), nk_ \in segmentReads(u, kp.Ee, kp.Nk) :
             LET n1 == setSpeciesAmounts(st.n, nk_, kp.ispecies_k)
                 e0 == [op |-> "function", u |-> u, sid |-> sid, be |-> be_, nk |-> nk_]
             IN IF ~allFinite(u)
                THEN /\ kp' = kp
                     /\ ev' = e0 @@ [ret |-> 1, threw |-> FALSE, eqCalled |-> FALSE,
                                     ratesCalled |-> FALSE]
                     /\ UNCHANGED <<states, pc, ctx, t, ncalls, eq>>
                ELSE \/ \* equilibrium.solve throws
                        /\ kp' = kp
                        /\ states' = [states EXCEPT ![sid].n = n1]
                        /\ eq' = EqCall(kp, sid, be_, n1, FALSE, 0)
                        /\ ev' = e0 @@ [ret |-> 0, threw |-> TRUE, eqCalled |-> TRUE,
                                        ratesCalled |-> FALSE]
                        /\ pc' = "idle"
                        /\ ctx' = Failed(ctx)
                        /\ UNCHANGED <<t, ncalls>>
                     \/ \E x \in EquilibriumSolutions(kp, be_), g \in GarbageVals :
                        LET n2 == setSpeciesAmounts(n1, x, kp.ispecies_e)
                            rval == rates(kp.T, kp.P, n2)
                            raw == rhs(kp, rval)
                            res == floorClamp(u, resAssigned(u, raw, g))
                        IN /\ kp' = [kp EXCEPT !.r = [val |-> rval,
                                                      ddn |-> rateJacobian(kp.T, kp.P, n2)]]
                           /\ states' = [states EXCEPT ![sid].n = n2]
                           /\ eq' = EqCall(kp, sid, be_, n1, TRUE, 0)
                           /\ ev' = e0 @@ [ret |-> 0, threw |-> FALSE, eqCalled |-> TRUE,
                                           ratesCalled |-> TRUE,
                                           T |-> kp.T, P |-> kp.P, n |-> n2, rval |-> rval,
                                           raw |-> raw, res |-> res]
                           /\ UNCHANGED <<pc, ctx, t, ncalls>>
    /\ UNCHANGED <<output, phase>>

\* cols(r.ddn, indices) when r was never assigned reads past an empty matrix
colsReads(X, idx) ==
    IF X.nr = numReactions /\ X.nc = numSpecies THEN {cols(X, idx)}
    ELSE {Mat(numReactions, Len(idx), [i \in 1..numReactions |-> [j \in 1..Len(idx) |-> g]]) :
            g \in GarbageVals}

\* jacobian(state, t, u, res), called by the integrator on the state that
\* initialize bound into the callback
jacobian ==
    /\ pc = "integrate"
    /\ \E u \in TrialVectors(kp.ode.neq) :
       LET sid == kp.ode.state
           st == states[sid]
       IN \/ /\ ~InRange(u, 0, kp.Ee + kp.Nk) \/ kp.r.ddn.nc # numSpecies
             /\ pc' = "aborted"
             /\ UNCHANGED <<kp, states, ctx, t, ncalls, ev, eq>>
          \/ \E be_ \in segmentReads(u, 0, kp.Ee), nk_ \in segmentReads(u, kp.Ee, kp.Nk) :
             LET n1 == setSpeciesAmounts(st.n, nk_, kp.ispecies_k)
                 e0 == [op |-> "jacobian", u |-> u, sid |-> sid, be |-> be_, nk |-> nk_,
                        ratesCalled |-> FALSE, eqCalled |-> TRUE]
             IN \/ \* equilibrium.solve throws
                   /\ kp' = kp
                   /\ states' = [states EXCEPT ![sid].n = n1]
                   /\ eq' = EqCall(kp, sid, be_, n1, FALSE, 0)
                   /\ ev' = e0 @@ [ret |-> 0, threw |-> TRUE]
                   /\ pc' = "idle"
                   /\ ctx' = Failed(ctx)
                   /\ UNCHANGED <<t, ncalls>>
                \/ \E x \in EquilibriumSolutions(kp, be_),
                      Re_ \in colsReads(kp.r.ddn, kp.ispecies_e),
                      Rk_ \in colsReads(kp.r.ddn, kp.ispecies_k) :
                   LET n2 == setSpeciesAmounts(n1, x, kp.ispecies_e)
                       Be_ == dndb(kp, n2)
                       R_ == HStack(MatMul(Re_, Be_), Rk_)
                   IN /\ kp' = kp
                      /\ states' = [states EXCEPT ![sid].n = n2]
                      /\ eq' = EqCall(kp, sid, be_, n1, TRUE, 0)
                      /\ ev' = e0 @@ [ret |-> 0, threw |-> FALSE, n |-> n2,
                                      Be |-> Be_, Re |-> Re_, Rk |-> Rk_, R |-> R_,
                                      res |-> MatMul(kp.A, R_)]
                      /\ UNCHANGED <<pc, ctx, t, ncalls>>
    /\ UNCHANGED <<output, phase>>

(***************************************************************************)
(* step and solve                                                          *)
(***************************************************************************)
\* const double tfinal = unsigned(-1): 4294967295 s; times are counted in units
\* of 65537 s, in which 4294967295 s = 65535
UnsignedMax == 65535

\* the composition that a step/solve call found in the state it was given
Snapshot(n) == n

\* step/solve returned normally
Returned(c) == [op |-> c.op, status |-> "returned", sid |-> c.sid]

\* an end of step/solve that resolves the equilibrium without writing nk
CommitWithoutWrite(k1, sid, c1) ==
    \E be_ \in segmentReads(k1.benk, 0, k1.Ee) :
       LET n1 == states[sid].n
       IN /\ kp' = k1
          /\ pc' = "idle"
          /\ \E x \in EquilibriumSolutions(k1, be_) :
                /\ states' = [states EXCEPT ![sid].n = setSpeciesAmounts(n1, x, k1.ispecies_e)]
                /\ eq' = EqCall(k1, sid, be_, n1, TRUE, 1)
                /\ ctx' = Returned(c1)

\* a commit that ignores the failure of the final equilibrium resolve
CommitSwallowsFailure(k1, sid, c1) ==
    \/ /\ ~InRange(k1.benk, 0, k1.Ee + k1.Nk)
       /\ pc' = "aborted"
       /\ kp' = k1
       /\ ctx' = c1
       /\ UNCHANGED <<states, eq>>
    \/ \E be_ \in segmentReads(k1.benk, 0, k1.Ee), nk_ \in segmentReads(k1.benk, k1.Ee, k1.Nk) :
       LET n1 == setSpeciesAmounts(states[sid].n, nk_, k1.ispecies_k)
       IN /\ kp' = k1
          /\ pc' = "idle"
          /\ \/ /\ states' = [states EXCEPT ![sid].n = n1]
                /\ eq' = EqCall(k1, sid, be_, n1, FALSE, 1)
                /\ ctx' = Returned(c1)
             \/ \E x \in EquilibriumSolutions(k1, be_) :
                /\ states' = [states EXCEPT ![sid].n = setSpeciesAmounts(n1, x, k1.ispecies_e)]
                /\ eq' = EqCall(k1, sid, be_, n1, TRUE, 1)
                /\ ctx' = Returned(c1)

\* the end of step and of both solve variants, after the integrator returned
\* the vector k1.benk: decompose benk, write nk, resolve the equilibrium
Commit(k1, sid, c1) ==
    \/ /\ ~InRange(k1.benk, 0, k1.Ee + k1.Nk)
       /\ pc' = "aborted"
       /\ kp' = k1
       /\ ctx' = c1
       /\ UNCHANGED <<states, eq>>
    \/ \E be_ \in segmentReads(k1.benk, 0, k1.Ee), nk_ \in segmentReads(k1.benk, k1.Ee, k1.Nk) :
       LET n1 == setSpeciesAmounts(states[sid].n, nk_, k1.ispecies_k)
       IN /\ kp' = k1
          /\ pc' = "idle"
          /\ \/ \* equilibrium.solve throws
                /\ states' = [states EXCEPT ![sid].n = n1]
                /\ eq' = EqCall(k1, sid, be_, n1, FALSE, 1)
                /\ ctx' = Failed(c1)
             \/ \E x \in EquilibriumSolutions(k1, be_) :
                /\ states' = [states EXCEPT ![sid].n = setSpeciesAmounts(n1, x, k1.ispecies_e)]
                /\ eq' = EqCall(k1, sid, be_, n1, TRUE, 1)
                /\ ctx' = Returned(c1)

\* step(state, t, tfinal) up to the call of ode.integrate
StepEnter(sid, tfinal) ==
    LET st == states[sid]
        ne_ == rows(st.n, kp.ispecies_e)
        nk_ == rows(st.n, kp.ispecies_k)
        benk_ == segmentAssign(segmentAssign(kp.benk, 0, MatVec(kp.We, ne_)), kp.Ee, nk_)
        c1 == [op |-> "step", status |-> "running", sid |-> sid, tfinal |-> tfinal,
               n0 |-> Snapshot(st.n), initialized |-> kp.ode.initialized]
    IN \/ /\ ~InRange(kp.benk, 0, kp.Ee + kp.Nk)
          /\ pc' = "aborted"
          /\ UNCHANGED <<kp, states, ctx, t, ncalls, ev, eq>>
       \/ /\ kp' = [kp EXCEPT !.benk = benk_]
          /\ IF kp.ode.initialized
             THEN pc' = "integrate" /\ ctx' = c1
             ELSE pc' = "idle" /\ ctx' = Failed(c1)
          /\ ncalls' = ncalls + 1
          /\ ev' = NoEval
          /\ eq' = NoEq
          /\ UNCHANGED <<states, t>>

step(S) ==
    /\ pc = "idle"
    /\ ncalls < MaxCalls
    /\ t < MaxTime
    /\ \E sid \in S, tfinal \in (t + 1)..MaxTime : StepEnter(sid, tfinal)
    /\ UNCHANGED <<output, phase>>

\* step(state, t): tfinal = unsigned(-1)
stepUnbounded(S) ==
    /\ pc = "idle"
    /\ ncalls < MaxCalls
    /\ t < MaxTime
    /\ \E sid \in S : StepEnter(sid, UnsignedMax)
    /\ UNCHANGED <<output, phase>>

Min(a, b) == IF a < b THEN a ELSE b

\* ode.integrate of step returns: one internal step to a time in (t, tfinal]
stepReturns ==
    /\ pc = "integrate"
    /\ ctx.op = "step"
    /\ \E u \in ReturnVectors(kp.ode.neq), t1 \in (t + 1)..Min(ctx.tfinal, MaxTime) :
         /\ t' = t1
         /\ Commit([kp EXCEPT !.benk = u], ctx.sid, ctx)
    /\ ev' = NoEval
    /\ ncalls' = ncalls
    /\ UNCHANGED <<output, phase>>

\* the integrator gives up (its step size collapses) and throws
integratorThrows ==
    /\ pc = "integrate"
    /\ pc' = "idle"
    /\ ctx' = Failed(ctx)
    /\ ev' = NoEval
    /\ UNCHANGED <<kp, states, t, ncalls, eq>>
    /\ UNCHANGED <<output, phase>>

\* solve(state, t, dt): initialize, then solveWithOutput up to its first
\* ode.integrate or solveWithoutOutput up to ode.solve; t is passed by value
solve(S) ==
    /\ pc = "idle"
    /\ ncalls < MaxCalls
    /\ ncalls' = ncalls + 1
    /\ \E sid \in S, dt \in (IF kp.options.output.active THEN 0 ELSE 1)..(MaxTime - t) :
       LET k1 == initialize(kp, states[sid], sid, t)
           c1 == [op |-> IF kp.options.output.active THEN "solveOut" ELSE "solve",
                  status |-> "running", sid |-> sid, tfinal |-> t + dt,
                  n0 |-> Snapshot(states[sid].n),
                  tl |-> t, out |-> << >>, integrations |-> 0]
       IN IF kp.options.output.active /\ ~(t < t + dt)
          THEN Commit(k1, sid, c1)
          ELSE /\ kp' = k1
               /\ pc' = "integrate"
               /\ ctx' = c1
               /\ eq' = NoEq
               /\ UNCHANGED states
    /\ t' = t
    /\ ev' = NoEval
    /\ UNCHANGED <<output, phase>>

\* ode.solve of solveWithoutOutput returns the vector at t + dt
solveReturns ==
    /\ pc = "integrate"
    /\ ctx.op = "solve"
    /\ \E u \in ReturnVectors(kp.ode.neq) :
         Commit([kp EXCEPT !.benk = u], ctx.sid, ctx)
    /\ t' = ctx.tfinal
    /\ ev' = NoEval
    /\ ncalls' = ncalls
    /\ UNCHANGED <<output, phase>>

\* a loop of solveWithOutput that returns after its last turn without the
\* final decomposition and equilibrium resolve
solveWithOutputWithoutCommit ==
    /\ pc = "integrate"
    /\ ctx.op = "solveOut"
    /\ \E u \in ReturnVectors(kp.ode.neq), t1 \in (ctx.tl + 1)..ctx.tfinal :
       LET k1 == [kp EXCEPT !.benk = u]
           c1 == [ctx EXCEPT !.tl = t1, !.integrations = 1,
                             !.out = [t |-> t1, n |-> states[ctx.sid].n, benk |-> u]]
       IN /\ kp' = k1
          /\ IF t1 < ctx.tfinal
             THEN ctx' = c1 /\ pc' = pc
             ELSE ctx' = Returned(c1) /\ pc' = "idle"
          /\ UNCHANGED <<states, eq>>
    /\ t' = (IF pc' = "idle" THEN ctx.tfinal ELSE t)
    /\ ev' = NoEval
    /\ ncalls' = ncalls
    /\ UNCHANGED <<output, phase>>

\* a loop of solveWithOutput with the condition t <= tfinal
solveWithOutputLoopsAtFinal ==
    /\ pc = "integrate"
    /\ ctx.op = "solveOut"
    /\ \E u \in ReturnVectors(kp.ode.neq), t1 \in (ctx.tl + 1)..ctx.tfinal :
         /\ kp' = [kp EXCEPT !.benk = u]
         /\ ctx' = [ctx EXCEPT !.tl = t1, !.integrations = 1,
                               !.out = [t |-> t1, n |-> states[ctx.sid].n, benk |-> u]]
    /\ ev' = NoEval
    /\ UNCHANGED <<states, pc, eq, t, ncalls>>
    /\ UNCHANGED <<output, phase>>

\* one turn of the loop of solveWithOutput: ode.integrate returns, outputState
\* prints the state, and the loop either continues or ends with the commit
solveWithOutputIterates ==
    /\ pc = "integrate"
    /\ ctx.op = "solveOut"
    /\ \E u \in ReturnVectors(kp.ode.neq), t1 \in (ctx.tl + 1)..ctx.tfinal :
       LET k1 == [kp EXCEPT !.benk = u]
           c1 == [ctx EXCEPT !.tl = t1, !.integrations = 1,
                             !.out = [t |-> t1, n |-> states[ctx.sid].n, benk |-> u]]
       IN IF t1 < ctx.tfinal
          THEN /\ kp' = k1
               /\ ctx' = c1
               /\ UNCHANGED <<states, pc, eq>>
          ELSE Commit(k1, ctx.sid, c1)
    /\ t' = (IF pc' = "idle" THEN ctx.tfinal ELSE t)
    /\ ev' = NoEval
    /\ ncalls' = ncalls
    /\ UNCHANGED <<output, phase>>

\* one chemical state, constant temperature and pressure
Next ==
    \/ CallSetOptions
    \/ CallSetPartition
    \/ CallSetPartitionString
    \/ CallInitialize({1})
    \/ step({1})
    \/ stepUnbounded({1})
    \/ solve({1})
    \/ function
    \/ jacobian
    \/ stepReturns
    \/ solveReturns
    \/ solveWithOutputIterates
    \/ integratorThrows

Spec == Init /\ [][Next]_vars

\* every ode.integrate call of the loop of solveWithOutput returns (or
\* throws): the callbacks of one call do not go on forever
SpecLive == Spec /\ WF_vars(solveWithOutputIterates)

(***************************************************************************)
(* Properties of the right-hand-side evaluation                            *)
(***************************************************************************)
\* ev records a right-hand-side evaluation that ran to its return 0
Evaluated == ev.op = "function" /\ ~ev.threw /\ ev.ret = 0

\* C1: a right-hand-side evaluation whose u has a non-finite component returns
\* a non-zero code and does not throw, calls neither the equilibrium provider
\* nor the rate evaluation, and leaves the species amounts of the chemical
\* state (and the stored rates) as they were before the call
C1_NonFiniteRejected ==
    [][(pc = "integrate" /\ ev'.op = "function"
            /\ \E i \in 1..Len(ev'.u) : ev'.u[i] \in NonFinite)
          => /\ ev'.ret # 0
             /\ ~ev'.threw
             /\ ~ev'.eqCalled
             /\ ~ev'.ratesCalled
             /\ states' = states
             /\ eq' = eq
             /\ kp' = kp]_vars

\* a right-hand side was evaluated on a u with NaN or Inf and reported failure
C1_Witness ==
    /\ pc = "integrate"
    /\ ev.op = "function"
    /\ \E i \in 1..Len(ev.u) : ev.u[i] \in NonFinite
    /\ ev.ret = 1
    /\ kp.Nk > 0

\* C2: a step or solve call either returns with the state consistent (kinetic
\* amounts equal to the nk part of u, equilibrium species resolved for the be
\* part of u) or fails with the species amounts of the state as they were
\* when the call was made
C2_NoPartialResult ==
    (pc = "idle" /\ ctx.op \in {"step", "solve", "solveOut"})
        => /\ ctx.status = "returned"
                => /\ eq.called /\ eq.ok /\ eq.sid = ctx.sid
                   /\ rows(states[ctx.sid].n, kp.ispecies_k) = eq.nk
                   /\ MatVec(kp.We, rows(states[ctx.sid].n, kp.ispecies_e)) = eq.be
           /\ ctx.status = "failed" => states[ctx.sid].n = ctx.n0

C4_ClampOnlyKinetic ==
    (Evaluated /\ Len(ev.u) = kp.Ee + kp.Nk)
        => \A i \in 1..kp.Ee : ev.res[i] = MatVec(kp.A, ev.rval)[i]

\* C5: in a successful right-hand-side evaluation the derivative before the
\* clamp is A r.val, with r the rates evaluated at the stored T and P on the
\* composition read back after the equilibrium resolve: the top Ee entries
\* are (We tr(Se)) r and the bottom Nk entries are tr(Sk) r
C5_Derivative ==
    Evaluated =>
        /\ ev.rval = rates(kp.T, kp.P, states[ev.sid].n)
        /\ kp.r.val = ev.rval
        /\ ev.raw = MatVec(kp.A, ev.rval)
        /\ SubSeq(ev.raw, 1, kp.Ee) = MatVec(MatMul(kp.We, tr(kp.Se)), ev.rval)
        /\ SubSeq(ev.raw, kp.Ee + 1, kp.Ee + kp.Nk) = MatVec(tr(kp.Sk), ev.rval)

\* an evaluation under a partition with a kinetic species, with both
\* reactions running, produced derivatives in both blocks
C5_Witness ==
    /\ Evaluated
    /\ kp.Nk > 0
    /\ \A j \in 1..numReactions : ev.rval[j] > 0
    /\ \E i \in 1..kp.Ee : ev.raw[i] # 0
    /\ \E i \in (kp.Ee + 1)..(kp.Ee + kp.Nk) : ev.raw[i] # 0

(***************************************************************************)
(* Properties of the members between calls                                 *)
(***************************************************************************)
\* C6: between calls, once initialize has sized the integration variable,
\* benk has length Ee + Nk of the current partition, A is (Ee + Nk) x
\* numReactions and R is numReactions x (Ee + Nk): setPartition leaves every
\* buffer sized by Ee + Nk resized to the new partition
C6_DimensionInvariant ==
    (pc = "idle" /\ kp.ode.initialized)
        => /\ Len(kp.benk) = kp.Ee + kp.Nk
           /\ kp.A.nr = kp.Ee + kp.Nk /\ kp.A.nc = numReactions
           /\ kp.R.nr = numReactions /\ kp.R.nc = kp.Ee + kp.Nk

\* C7: A is always [We tr(Se) ; tr(Sk)] with We, Se and Sk those of the
\* current partition, and only setPartition changes A, We, Se or Sk: they
\* are constant while the integrator runs
C7_CoefficientMatrix ==
    /\ [](/\ kp.A = VStack(MatMul(kp.We, tr(kp.Se)), tr(kp.Sk))
          /\ kp.We = Partition(kp.partition).formulaMatrixEquilibriumSpecies
          /\ kp.Se = cols(stoichiometricMatrix, kp.ispecies_e)
          /\ kp.Sk = cols(stoichiometricMatrix, kp.ispecies_k))
    /\ [][<<kp.A, kp.We, kp.Se, kp.Sk>>' # <<kp.A, kp.We, kp.Se, kp.Sk>>
            => pc = "idle" /\ ctx'.op = "setPartition" /\ ctx'.status = "returned"]_vars

\* the partition was changed to one with a kinetic species, whose A has a
\* non-zero bottom block, and a step/solve call with callbacks ran under it
C7_Witness ==
    /\ kp.partition = {3}
    /\ kp.A = FromRows(<< <<0, 0>>, <<1, -1>>, <<-1, 1>> >>)
    /\ ctx.op \in {"step", "solve", "solveOut"}
    /\ ev.op \in {"function", "jacobian"}

(***************************************************************************)
(* Properties of initialize, step and solve                                *)
(***************************************************************************)
\* the integration variable has the length of the current partition
BenkInRange == Len(kp.benk) = kp.Ee + kp.Nk

\* C8: after a step that returns, the kinetic amounts of the state are the
\* nk segment of the u that the integrator returned; the equilibrium
\* provider was called once after the integrator returned, on that state,
\* with the be segment of u as target and with nk already written; and the
\* state is as that resolve left it
C8_StepCommit ==
    (pc = "idle" /\ ctx.op = "step" /\ ctx.status = "returned" /\ BenkInRange)
        => /\ rows(states[ctx.sid].n, kp.ispecies_k) = segment(kp.benk, kp.Ee, kp.Nk)
           /\ eq.called /\ eq.ok /\ eq.after = 1
           /\ eq.sid = ctx.sid
           /\ eq.be = segment(kp.benk, 0, kp.Ee)
           /\ eq.nk = segment(kp.benk, kp.Ee, kp.Nk)
           /\ rows(states[ctx.sid].n, kp.ispecies_e)
                 \in EquilibriumSolutions(kp, segment(kp.benk, 0, kp.Ee))

\* a step under a partition with a kinetic species returned and wrote a
\* kinetic amount that the state did not hold before
C8_Witness ==
    /\ pc = "idle" /\ ctx.op = "step" /\ ctx.status = "returned"
    /\ BenkInRange
    /\ kp.Nk = 1
    /\ states[ctx.sid].n[3] = MaxAmount
    /\ t > 0

\* C9: after initialize and after every step or solve that returns, We times
\* the equilibrium amounts of the state is the be segment of benk and the
\* kinetic amounts of the state are its nk segment: u = [We ne ; nk]
C9_ElementConservation ==
    (/\ pc = "idle"
     /\ ctx.op \in {"initialize", "step", "solve", "solveOut"}
     /\ ctx.status = "returned"
     /\ BenkInRange)
        => LET n == states[ctx.sid].n
           IN /\ MatVec(kp.We, rows(n, kp.ispecies_e)) = segment(kp.benk, 0, kp.Ee)
              /\ rows(n, kp.ispecies_k) = segment(kp.benk, kp.Ee, kp.Nk)

\* a solve under a partition with a kinetic species returned after the
\* integrator moved element amounts between the segments
C9_Witness ==
    /\ pc = "idle" /\ ctx.op \in {"solve", "solveOut"} /\ ctx.status = "returned"
    /\ BenkInRange
    /\ kp.Nk = 1
    /\ eq.called /\ eq.ok
    /\ \E i \in 1..kp.Ee : kp.benk[i] > 0

\* C10: initialize hands the integrator u0 = [We ne ; nk] at time t0, with ne
\* and nk the amounts of the state at the equilibrium and kinetic indices of
\* the partition, sets the number of equations to Ee + Nk, and records the
\* temperature and pressure of the state
C10_Initialize ==
    (pc = "idle" /\ ctx.op = "initialize")
        => LET st == states[ctx.sid]
           IN /\ ctx.u0 = MatVec(kp.We, rows(st.n, kp.ispecies_e))
                            \o rows(st.n, kp.ispecies_k)
              /\ kp.benk = ctx.u0
              /\ kp.ode.initialized
              /\ kp.ode.t0 = ctx.t0
              /\ kp.ode.neq = kp.Ee + kp.Nk
              /\ kp.ode.state = ctx.sid
              /\ kp.T = st.T /\ kp.P = st.P

\* initialize ran under a partition with a kinetic species on a state that
\* holds all three species
C10_Witness ==
    /\ pc = "idle" /\ ctx.op = "initialize"
    /\ kp.Nk = 1
    /\ kp.ode.neq = 3
    /\ \A i \in 1..numSpecies : states[ctx.sid].n[i] > 0
    /\ kp.T = 2 /\ kp.P = 1

(***************************************************************************)
(* Properties of the Jacobian evaluation                                   *)
(***************************************************************************)
\* ev records a Jacobian evaluation that ran to its return 0 on a u and a
\* stored rate Jacobian of the sizes of the current partition
JacobianEvaluated ==
    /\ ev.op = "jacobian" /\ ~ev.threw
    /\ Len(ev.u) = kp.Ee + kp.Nk
    /\ kp.r.ddn.nr = numReactions /\ kp.r.ddn.nc = numSpecies

\* C11: a Jacobian evaluation returns A R, where R has Ee + Nk columns, its
\* left Ee columns are Re Be with Be the sensitivity that the equilibrium
\* provider gives after the resolve, and its right Nk columns are Rk; Re and
\* Rk are the columns of the rate Jacobian at the equilibrium and kinetic
\* species
C11_JacobianAssembly ==
    JacobianEvaluated =>
        LET Re_ == [nr |-> numReactions, nc |-> kp.Ne,
                    d |-> [i \in 1..numReactions |->
                             [j \in 1..kp.Ne |-> kp.r.ddn.d[i][kp.ispecies_e[j]]]]]
            Rk_ == [nr |-> numReactions, nc |-> kp.Nk,
                    d |-> [i \in 1..numReactions |->
                             [j \in 1..kp.Nk |-> kp.r.ddn.d[i][kp.ispecies_k[j]]]]]
            ReBe == MatMul(Re_, dndb(kp, states[ev.sid].n))
        IN /\ ev.R.nr = numReactions /\ ev.R.nc = kp.Ee + kp.Nk
           /\ \A i \in 1..numReactions :
                 /\ \A j \in 1..kp.Ee : ev.R.d[i][j] = ReBe.d[i][j]
                 /\ \A j \in 1..kp.Nk : ev.R.d[i][kp.Ee + j] = Rk_.d[i][j]
           /\ ev.res = MatMul(kp.A, ev.R)
           /\ ev.ret = 0

\* a Jacobian evaluation under a partition with a kinetic species produced
\* non-zero entries in both blocks of R and a non-zero product A R
C11_Witness ==
    /\ JacobianEvaluated
    /\ kp.Nk = 1
    /\ \E i \in 1..numReactions : \E j \in 1..kp.Ee : ev.R.d[i][j] # 0
    /\ \E i \in 1..numReactions : ev.R.d[i][kp.Ee + 1] # 0
    /\ \E i \in 1..(kp.Ee + kp.Nk) : \E j \in 1..(kp.Ee + kp.Nk) : ev.res.d[i][j] # 0

\* C12: the Jacobian evaluation has the finiteness guard of the right-hand
\* side: on a u with a non-finite component it reports failure to the
\* integrator, does not write nk into the chemical state and does not call
\* the equilibrium provider
C12_JacobianNonFiniteRejected ==
    [][(pc = "integrate" /\ ev'.op = "jacobian"
            /\ \E i \in 1..Len(ev'.u) : ev'.u[i] \in NonFinite)
          => /\ ev'.ret # 0
             /\ ~ev'.threw
             /\ states' = states
             /\ eq' = eq]_vars

(***************************************************************************)
(* Properties of the lifecycle                                             *)
(***************************************************************************)
\* C13: the integrator is asked to advance by a step only after initialize
\* has installed the problem and the initial condition for the current
\* partition: a step on a freshly constructed orchestrator, or after a
\* setPartition without a new initialize, does not reach the integrator
C13_Lifecycle ==
    (pc = "integrate" /\ ctx.op = "step")
        => /\ kp.ode.initialized
           /\ kp.ode.neq = kp.Ee + kp.Nk
           /\ Len(kp.benk) = kp.Ee + kp.Nk

(***************************************************************************)
(* A caller whose clock is past 2^32 - 1 seconds                           *)
(***************************************************************************)
\* the first time (in units of 65537 s) after 4294967295 s
LateTime == UnsignedMax + 1

InitLate ==
    /\ kp = Impl
    /\ \E n1 \in InitialCompositions :
         states = [sid \in StateIds |->
                     IF sid = 1 THEN [T |-> 2, P |-> 1, n |-> n1]
                     ELSE [T |-> 1, P |-> 2, n |-> <<0, 1, MaxAmount>>]]
    /\ pc = "idle"
    /\ ctx = NoCall
    /\ t = LateTime
    /\ ncalls = 0
    /\ ev = NoEval
    /\ eq = NoEq
    /\ output = ChemicalOutputImpl
    /\ phase = NoPhase

\* step(state, t) at any time t of the caller
stepUnboundedAnyTime(S) ==
    /\ pc = "idle"
    /\ ncalls < MaxCalls
    /\ \E sid \in S : StepEnter(sid, UnsignedMax)
    /\ UNCHANGED <<output, phase>>

\* the integrator cannot advance from t to a final time before t: besides
\* calling back, it gives up
NextLate ==
    \/ CallSetOptions
    \/ CallSetPartition
    \/ CallSetPartitionString
    \/ CallInitialize({1})
    \/ stepUnboundedAnyTime({1})
    \/ function
    \/ jacobian
    \/ integratorThrows

SpecLate == InitLate /\ [][NextLate]_vars

\* C14: step(state, t) without tfinal passes the integrator a final time
\* that is not smaller than the current time t, for every t, also past
\* 2^32 - 1 seconds, so that the step is not capped
C14_UnboundedStep ==
    (pc = "integrate" /\ ctx.op = "step" /\ ctx.tfinal = UnsignedMax)
        => ctx.tfinal >= t

(***************************************************************************)
(* Properties of solve                                                     *)
(***************************************************************************)
\* C15: solve ends in the same decomposition and equilibrium resolve as step
\* on both of its paths: with output active and with output inactive, the
\* state after the call holds the nk segment of the final u in its kinetic
\* species and, in its equilibrium species, a composition that the provider
\* returns for the be segment of that u, resolved once after nk was written;
\* the final state depends on the path only through the final u
C15_SolvePaths ==
    (pc = "idle" /\ ctx.op \in {"solve", "solveOut"} /\ ctx.status = "returned")
        => LET n == states[ctx.sid].n
               be_ == SubSeq(kp.benk, 1, kp.Ee)
               nk_ == SubSeq(kp.benk, kp.Ee + 1, kp.Ee + kp.Nk)
           IN /\ Len(kp.benk) = kp.Ee + kp.Nk
              /\ rows(n, kp.ispecies_k) = nk_
              /\ rows(n, kp.ispecies_e) \in EquilibriumSolutions(kp, be_)
              /\ eq = [called |-> TRUE, sid |-> ctx.sid, be |-> be_, nk |-> nk_,
                       ok |-> TRUE, after |-> 1]

\* a solve with output active ran its loop to the final time under a
\* partition with a kinetic species and returned
C15_Witness ==
    /\ pc = "idle" /\ ctx.op = "solveOut" /\ ctx.status = "returned"
    /\ kp.Nk = 1
    /\ t = MaxTime
    /\ states[ctx.sid].n[3] = MaxAmount

\* C16: solve with output active terminates: while the loop runs the
\* integrator time is below the final time t0 + dt fixed at entry, the
\* integrator is not called when dt <= 0, every turn moves the integrator
\* time forward without passing the final time, a normal return follows
\* exactly one final equilibrium resolve on the decomposed vector (for
\* dt <= 0 the vector of initialize), and the loop is eventually left
C16_SolveWithOutputTerminates ==
    /\ []((pc = "integrate" /\ ctx.op = "solveOut")
            => ctx.tl < ctx.tfinal /\ ctx.tfinal <= MaxTime)
    /\ [][(pc' = "integrate" /\ ctx'.op = "solveOut" /\ ctx' # ctx)
            => IF pc = "idle"
               THEN ctx'.tl = t /\ ctx'.tfinal > t /\ ctx'.integrations = 0
               ELSE ctx'.tl > ctx.tl /\ ctx'.tl <= ctx.tfinal
                      /\ ctx'.tfinal = ctx.tfinal]_vars
    /\ [][(ctx'.op = "solveOut" /\ ctx'.status = "returned" /\ ctx' # ctx)
            => /\ eq' = [called |-> TRUE, sid |-> ctx'.sid,
                         be |-> segment(kp'.benk, 0, kp'.Ee),
                         nk |-> segment(kp'.benk, kp'.Ee, kp'.Nk),
                         ok |-> TRUE, after |-> 1]
               /\ (pc = "idle" => kp'.benk = initialize(kp, states[ctx'.sid], ctx'.sid, t).benk)]_vars
    /\ ((pc = "integrate" /\ ctx.op = "solveOut") ~> (pc # "integrate"))

\* the loop of solveWithOutput finished a turn before the final time and
\* goes on to call the integrator again
C16_Witness ==
    /\ pc = "integrate" /\ ctx.op = "solveOut"
    /\ ctx.integrations = 1
    /\ ctx.tl > 0 /\ ctx.tl < ctx.tfinal
    /\ ctx.out.t = ctx.tl

InitZero ==
    /\ kp = Impl
    /\ \E n1 \in InitialCompositions :
         states = [sid \in StateIds |->
                     IF sid = 1 THEN [T |-> 0, P |-> 0, n |-> n1]
                     ELSE [T |-> 0, P |-> 0, n |-> <<0, 1, MaxAmount>>]]
    /\ pc = "idle"
    /\ ctx = NoCall
    /\ t = 0
    /\ ncalls = 0
    /\ ev = NoEval
    /\ eq = NoEq
    /\ output = ChemicalOutputImpl
    /\ phase = NoPhase

\* ode.integrate of step returns when every derivative it was given is zero:
\* the time moves on and benk is what step passed in
stepReturnsZeroRate ==
    /\ pc = "integrate"
    /\ ctx.op = "step"
    /\ \E t1 \in (t + 1)..Min(ctx.tfinal, MaxTime) :
         /\ t' = t1
         /\ Commit(kp, ctx.sid, ctx)
    /\ ev' = NoEval
    /\ ncalls' = ncalls
    /\ UNCHANGED <<output, phase>>

NextZero ==
    \/ CallSetPartition
    \/ CallSetPartitionString
    \/ CallInitialize({1})
    \/ step({1})
    \/ stepUnbounded({1})
    \/ function
    \/ jacobian
    \/ stepReturnsZeroRate
    \/ integratorThrows

SpecZero == InitZero /\ [][NextZero]_vars

\* every evaluation of the rates in this system gives zero
ZeroRates ==
    /\ kp.ode.initialized => kp.T = 0 /\ kp.P = 0
    /\ (ev.op = "function" /\ ev.ret = 0 /\ ~ev.threw)
          => \A j \in 1..numReactions : ev.rval[j] = 0

\* C18: when every reaction rate is zero, a step that returns leaves u = benk
\* as it was assembled at entry and leaves every species amount of the
\* state, kinetic and equilibrium, equal to its value before the step
C18_ZeroRateIdempotence ==
    [][(pc = "integrate" /\ ctx.op = "step" /\ pc' = "idle" /\ ctx'.status = "returned")
          => /\ kp'.benk = kp.benk
             /\ states'[ctx.sid].n = ctx.n0]_vars

\* C19: a setPartition(string) whose string is not a valid partition fails in
\* setPartition itself, outside any integration, and leaves every member of
\* the orchestrator (partition, index sets, We, Se, Sk, A, R) and the
\* caller's states as they were
C19_SetPartitionFailureAtomic ==
    [][(ctx'.op = "setPartition" /\ ctx'.status = "failed" /\ ctx' # ctx)
          => /\ pc = "idle" /\ pc' = "idle"
             /\ kp' = kp
             /\ states' = states
             /\ t' = t]_vars

\* setPartition(string) failed after a partition with a kinetic species was
\* configured
C19_Witness ==
    /\ ctx.op = "setPartition" /\ ctx.status = "failed"
    /\ kp.Nk = 1 /\ kp.ispecies_k = <<3>>
    /\ kp.A.nr = 3

\* C20: after construction and after every setPartition the equilibrium and
\* the kinetic species index sets of the orchestrator are disjoint and
\* together cover all species, Ne and Nk are their sizes with Ne + Nk the
\* number of species, Ee is the number of equilibrium elements, and We has
\* Ee rows and Ne columns
C20_PartitionIndexSets ==
    /\ Range(kp.ispecies_e) \cap Range(kp.ispecies_k) = {}
    /\ Range(kp.ispecies_e) \cup Range(kp.ispecies_k) = 1..numSpecies
    /\ kp.Ne = Len(kp.ispecies_e) /\ kp.Ne = Cardinality(Range(kp.ispecies_e))
    /\ kp.Nk = Len(kp.ispecies_k) /\ kp.Nk = Cardinality(Range(kp.ispecies_k))
    /\ kp.Ne + kp.Nk = numSpecies
    /\ kp.Ee = Len(kp.ielements_e)
    /\ kp.We.nr = kp.Ee /\ kp.We.nc = kp.Ne
    /\ Len(kp.We.d) = kp.Ee
    /\ \A i \in 1..kp.Ee : Len(kp.We.d[i]) = kp.Ne

\* setPartition returned with species C kinetic and species A, B in the
\* equilibrium partition
C20_Witness ==
    /\ ctx.op = "setPartition" /\ ctx.status = "returned"
    /\ kp.ispecies_e = <<1, 2>> /\ kp.ispecies_k = <<3>>
    /\ kp.We.nc = 2

(***************************************************************************)
(* A caller that owns two chemical states and changes the temperature and  *)
(* pressure of the first between calls                                     *)
(***************************************************************************)
NextCaller ==
    \/ CallSetPartition
    \/ CallSetTemperaturePressure
    \/ CallInitialize(StateIds)
    \/ step(StateIds)
    \/ function
    \/ jacobian
    \/ stepReturns
    \/ integratorThrows

SpecCaller == Init /\ [][NextCaller]_vars

\* C21: the temperature and pressure that a right-hand-side evaluation
\* passes to the activities and the rates are the temperature and pressure
\* that the evaluated chemical state has at that moment
C21_CurrentTemperaturePressure ==
    (ev.op = "function" /\ ev.ret = 0 /\ ~ev.threw)
        => ev.T = states[ev.sid].T /\ ev.P = states[ev.sid].P

\* C24: while a step runs, the callbacks and the end of the step read and
\* mutate only the chemical state that was passed to that step, also when
\* it is another object than the state passed to the preceding initialize
C24_StepStateOnly ==
    [][(pc = "integrate" /\ ctx.op = "step")
          => /\ \A s \in StateIds \ {ctx.sid} : states'[s] = states[s]
             /\ (ev'.op \in {"function", "jacobian"} => ev'.sid = ctx.sid)
             /\ (eq'.called => eq'.sid = ctx.sid)]_vars

(***************************************************************************)
(* A copy of an initialized KineticPath                                    *)
(***************************************************************************)
\* whether the callbacks held by the integrator of k were built by the
\* initialize of the instance that k was copied from
BoundToOriginal(k) == "owner" \in DOMAIN k.ode

\* KineticPath(const KineticPath&): new Impl(*other.pimpl) copies every
\* member; the copied integrator keeps the callbacks of the problem, whose
\* closures hold the this pointer of the original Impl and its state.  From
\* here on kp is the copy, which the caller goes on to use, and kp.orig is
\* the original instance
CallCopy ==
    /\ pc = "idle"
    /\ kp.ode.initialized
    /\ "orig" \notin DOMAIN kp
    /\ kp' = [kp EXCEPT !.ode = kp.ode @@ [owner |-> "original"]] @@ [orig |-> kp]
    /\ ctx' = [op |-> "copy", status |-> "returned"]
    /\ ev' = NoEval
    /\ eq' = NoEq
    /\ UNCHANGED <<states, pc, t, ncalls>>
    /\ UNCHANGED <<output, phase>>

\* function(state, t, u, res) run on the original instance by the integrator
\* of the copy
functionOfOriginal ==
    /\ pc = "integrate"
    /\ BoundToOriginal(kp)
    /\ \E u \in TrialVectors(kp.ode.neq) :
       LET sid == kp.ode.state
           st == states[sid]
       IN \/ /\ ~InRange(u, 0, kp.orig.Ee + kp.orig.Nk)
             /\ pc' = "aborted"
             /\ UNCHANGED <<kp, states, ctx, t, ncalls, ev, eq>>
          \/ \E be_ \in segmentReads(u, 0, kp.orig.Ee), nk_ \in segmentReads(u, kp.orig.Ee, kp.orig.Nk) :
             LET n1 == setSpeciesAmounts(st.n, nk_, kp.orig.ispecies_k)
                 e0 == [inst |-> "original", op |-> "function", u |-> u, sid |-> sid, be |-> be_, nk |-> nk_]
             IN IF ~allFinite(u)
                THEN /\ kp' = kp
                     /\ ev' = e0 @@ [ret |-> 1, threw |-> FALSE, eqCalled |-> FALSE,
                                     ratesCalled |-> FALSE]
                     /\ UNCHANGED <<states, pc, ctx, t, ncalls, eq>>
                ELSE \/ \* equilibrium.solve throws
                        /\ kp' = kp
                        /\ states' = [states EXCEPT ![sid].n = n1]
                        /\ eq' = EqCall(kp.orig, sid, be_, n1, FALSE, 0)
                        /\ ev' = e0 @@ [ret |-> 0, threw |-> TRUE, eqCalled |-> TRUE,
                                        ratesCalled |-> FALSE]
                        /\ pc' = "idle"
                        /\ ctx' = Failed(ctx)
                        /\ UNCHANGED <<t, ncalls>>
                     \/ \E x \in EquilibriumSolutions(kp.orig, be_), g \in GarbageVals :
                        LET n2 == setSpeciesAmounts(n1, x, kp.orig.ispecies_e)
                            rval == rates(kp.orig.T, kp.orig.P, n2)
                            raw == rhs(kp.orig, rval)
                            res == floorClamp(u, resAssigned(u, raw, g))
                        IN /\ kp' = [kp EXCEPT !.orig.r = [val |-> rval,
                                                      ddn |-> rateJacobian(kp.orig.T, kp.orig.P, n2)]]
                           /\ states' = [states EXCEPT ![sid].n = n2]
                           /\ eq' = EqCall(kp.orig, sid, be_, n1, TRUE, 0)
                           /\ ev' = e0 @@ [ret |-> 0, threw |-> FALSE, eqCalled |-> TRUE,
                                           ratesCalled |-> TRUE,
                                           T |-> kp.orig.T, P |-> kp.orig.P, n |-> n2, rval |-> rval,
                                           raw |-> raw, res |-> res]
                           /\ UNCHANGED <<pc, ctx, t, ncalls>>
    /\ UNCHANGED <<output, phase>>

\* jacobian(state, t, u, res) run on the original instance by the integrator
\* of the copy
jacobianOfOriginal ==
    /\ pc = "integrate"
    /\ BoundToOriginal(kp)
    /\ \E u \in TrialVectors(kp.ode.neq) :
       LET sid == kp.ode.state
           st == states[sid]
       IN \/ /\ ~InRange(u, 0, kp.orig.Ee + kp.orig.Nk) \/ kp.orig.r.ddn.nc # numSpecies
             /\ pc' = "aborted"
             /\ UNCHANGED <<kp, states, ctx, t, ncalls, ev, eq>>
          \/ \E be_ \in segmentReads(u, 0, kp.orig.Ee), nk_ \in segmentReads(u, kp.orig.Ee, kp.orig.Nk) :
             LET n1 == setSpeciesAmounts(st.n, nk_, kp.orig.ispecies_k)
                 e0 == [inst |-> "original", op |-> "jacobian", u |-> u, sid |-> sid, be |-> be_, nk |-> nk_,
                        ratesCalled |-> FALSE, eqCalled |-> TRUE]
             IN \/ \* equilibrium.solve throws
                   /\ kp' = kp
                   /\ states' = [states EXCEPT ![sid].n = n1]
                   /\ eq' = EqCall(kp.orig, sid, be_, n1, FALSE, 0)
                   /\ ev' = e0 @@ [ret |-> 0, threw |-> TRUE]
                   /\ pc' = "idle"
                   /\ ctx' = Failed(ctx)
                   /\ UNCHANGED <<t, ncalls>>
                \/ \E x \in EquilibriumSolutions(kp.orig, be_),
                      Re_ \in colsReads(kp.orig.r.ddn, kp.orig.ispecies_e),
                      Rk_ \in colsReads(kp.orig.r.ddn, kp.orig.ispecies_k) :
                   LET n2 == setSpeciesAmounts(n1, x, kp.orig.ispecies_e)
                       Be_ == dndb(kp.orig, n2)
                       R_ == HStack(MatMul(Re_, Be_), Rk_)
                   IN /\ kp' = kp
                      /\ states' = [states EXCEPT ![sid].n = n2]
                      /\ eq' = EqCall(kp.orig, sid, be_, n1, TRUE, 0)
                      /\ ev' = e0 @@ [ret |-> 0, threw |-> FALSE, n |-> n2,
                                      Be |-> Be_, Re |-> Re_, Rk |-> Rk_, R |-> R_,
                                      res |-> MatMul(kp.orig.A, R_)]
                      /\ UNCHANGED <<pc, ctx, t, ncalls>>
    /\ UNCHANGED <<output, phase>>

\* the integrator calls the closure of its problem
callFunction == IF BoundToOriginal(kp) THEN functionOfOriginal ELSE function

callJacobian == IF BoundToOriginal(kp) THEN jacobianOfOriginal ELSE jacobian

NextCopy ==
    \/ CallSetPartition
    \/ CallInitialize({1})
    \/ CallCopy
    \/ step({1})
    \/ callFunction
    \/ callJacobian
    \/ stepReturns
    \/ integratorThrows

SpecCopy == Init /\ [][NextCopy]_vars

\* C22: while a step runs on a copy of an initialized orchestrator, the
\* callbacks run by the integrator of the copy are those of the copy: no
\* member of the original instance changes and no evaluation reads the
\* members of the original instance
C22_CopyOwnsBuffers ==
    [][(pc = "integrate" /\ "orig" \in DOMAIN kp)
          => /\ kp'.orig = kp.orig
             /\ ~(ev' # ev /\ "inst" \in DOMAIN ev')]_vars

\* C23: a right-hand-side evaluation that returns 0 has passed the
\* finiteness check, wrote nk into the kinetic species of the state, resolved
\* the equilibrium for be on the state holding that nk, and evaluated the
\* rates on the composition read back after the resolve; besides the
\* amounts of the evaluated state nothing of the chemical states changes,
\* and of the members kept between calls only the rates r
C23_EvaluationOrder ==
    [][(ev'.op = "function" /\ ev'.ret = 0 /\ ~ev'.threw /\ ev' # ev /\ "inst" \notin DOMAIN ev')
          => LET sid == ev'.sid
             IN /\ \A i \in 1..Len(ev'.u) : ev'.u[i] \notin NonFinite
                /\ ev'.eqCalled /\ ev'.ratesCalled
                /\ eq' = [called |-> TRUE, sid |-> sid, be |-> ev'.be, nk |-> ev'.nk,
                          ok |-> TRUE, after |-> 0]
                /\ states'[sid].n = ev'.n
                /\ rows(ev'.n, kp.ispecies_k) = ev'.nk
                /\ rows(ev'.n, kp.ispecies_e) \in EquilibriumSolutions(kp, ev'.be)
                /\ ev'.T = kp.T /\ ev'.P = kp.P
                /\ ev'.rval = rates(ev'.T, ev'.P, ev'.n)
                /\ kp'.r.val = ev'.rval
                /\ kp' = [kp EXCEPT !.r = kp'.r]
                /\ states'[sid].T = states[sid].T /\ states'[sid].P = states[sid].P
                /\ \A s \in StateIds \ {sid} : states'[s] = states[s]
                /\ UNCHANGED <<pc, ctx, t, ncalls>>]_vars

\* a right-hand-side evaluation under a partition with a kinetic species
\* returned 0 with a non-zero rate after the resolve changed the
\* equilibrium amounts of the state
C23_Witness ==
    /\ ev.op = "function" /\ ev.ret = 0 /\ ~ev.threw
    /\ kp.Nk = 1
    /\ eq.called /\ eq.ok /\ eq.after = 0
    /\ ev.rval # <<0, 0>>
    /\ rows(ev.n, kp.ispecies_e) # rows(ctx.n0, kp.ispecies_e)

\* C25: in a Jacobian evaluation at u that returns 0, Re and Rk are the
\* columns of the rate Jacobian evaluated at the composition resolved for
\* this u: not of a rate Jacobian left by an evaluation at another u, and
\* not of a rate Jacobian that was never computed
C25_JacobianRatesCurrent ==
    (ev.op = "jacobian" /\ ev.ret = 0 /\ ~ev.threw /\ "inst" \notin DOMAIN ev)
        => LET ddn == rateJacobian(kp.T, kp.P, ev.n)
           IN /\ kp.r.ddn = ddn
              /\ ev.Re = cols(ddn, kp.ispecies_e)
              /\ ev.Rk = cols(ddn, kp.ispecies_k)

\* C26: in solve with output active, the state reported to the output after
\* an integrator step agrees with the vector u of the integrator at that
\* time: its kinetic amounts are the nk segment of u and its equilibrium
\* amounts give the be segment of u
C26_OutputConsistent ==
    (pc = "integrate" /\ ctx.op = "solveOut" /\ ctx.integrations = 1)
        => /\ rows(ctx.out.n, kp.ispecies_k) = segment(ctx.out.benk, kp.Ee, kp.Nk)
           /\ MatVec(kp.We, rows(ctx.out.n, kp.ispecies_e)) = segment(ctx.out.benk, 0, kp.Ee)

\* C27: initialize only reads the chemical state: a call of initialize, by
\* the caller or at the start of solve, leaves the temperature, the pressure
\* and every species amount of every state as they were, and invokes neither
\* the equilibrium provider nor the rate evaluation
C27_InitializeReadsOnly ==
    [][(pc = "idle" /\ (ctx'.op = "initialize"
                          \/ (pc' = "integrate" /\ ctx'.op \in {"solve", "solveOut"})))
          => /\ states' = states
             /\ ~eq'.called
             /\ ev'.op = "none"
             /\ kp'.r = kp.r]_vars

\* initialize returned on a state that is not the only composition with its
\* element amounts, and the state still holds that composition
C27_Witness ==
    /\ pc = "idle" /\ ctx.op = "initialize" /\ ctx.status = "returned"
    /\ kp.Nk = 0
    /\ ctx.u0 = <<2, 2>>
    /\ states[ctx.sid].n = <<1, 1, 1>>
    /\ ~eq.called

(***************************************************************************)
(* ChemicalOutput                                                          *)
(***************************************************************************)
\* the file names, the lists of quantity names and the lists of header words
\* that a caller configures
FileNames == {"", "out.txt"}

DataLists == {<< >>, <<"t">>, <<"t", "n">>}

HeaderLists == {<< >>, <<"time">>}

\* the strings, as sequences of characters, that a caller passes to
\* data(std::string) and header(std::string)
ConfigStrings == {<<"t">>, <<"t", ";", " ", "n">>, <<" ", "n", ";", "t">>}

\* the words of a string between the characters of delims, with the spaces
\* around each word removed and empty words dropped
RECURSIVE splitrimFrom(_, _, _, _)
splitrimFrom(str, delims, i, word) ==
    IF i > Len(str)
    THEN (IF word = << >> THEN << >> ELSE <<word>>)
    ELSE IF str[i] \in delims
         THEN (IF word = << >> THEN << >> ELSE <<word>>) \o splitrimFrom(str, delims, i + 1, << >>)
         ELSE IF str[i] = " "
              THEN splitrimFrom(str, delims, i + 1, word)
              ELSE splitrimFrom(str, delims, i + 1, Append(word, str[i]))

\* a word of one character is that character
wordOf(w) == IF Len(w) = 1 THEN w[1] ELSE w

splitrim(str, delims) ==
    LET ws == splitrimFrom(str, delims, 1, << >>)
    IN [k \in 1..Len(ws) |-> wordOf(ws[k])]

Returns(o, op) == [o EXCEPT !.call = [op |-> op, status |-> "returned"]]

\* ChemicalOutput::file(filename)
file ==
    /\ \E filename \in FileNames : output' = Returns([output EXCEPT !.filename = filename], "file")
    /\ UNCHANGED <<kineticVars, phase>>

\* ChemicalOutput::terminal(active)
terminal ==
    /\ \E active \in BOOLEAN : output' = Returns([output EXCEPT !.terminal = active], "terminal")
    /\ UNCHANGED <<kineticVars, phase>>

\* ChemicalOutput::data(std::vector<std::string>)
data ==
    /\ \E d \in DataLists : output' = Returns([output EXCEPT !.data = d], "data")
    /\ UNCHANGED <<kineticVars, phase>>

\* ChemicalOutput::data(std::string): the words between ';' and ' '
dataString ==
    /\ \E str \in ConfigStrings :
         output' = Returns([output EXCEPT !.data = splitrim(str, {";", " "})], "data")
    /\ UNCHANGED <<kineticVars, phase>>

\* ChemicalOutput::header(std::vector<std::string>)
header ==
    /\ \E h \in HeaderLists :
         output' = Returns([output EXCEPT !.header = h, !.headerCalled = TRUE], "header")
    /\ UNCHANGED <<kineticVars, phase>>

\* ChemicalOutput::header(std::string): the words between ';' and newline
headerString ==
    /\ \E str \in ConfigStrings :
         output' = Returns([output EXCEPT !.header = splitrim(str, {";"}),
                                          !.headerCalled = TRUE], "header")
    /\ UNCHANGED <<kineticVars, phase>>

\* the check of open: Assert(!filename.empty() || terminal, ...)
openCheck(o) == o.filename # "" \/ o.terminal

\* a conversion to bool that looks at the file name only
operatorBoolFileOnly(o) == Len(o.filename) # 0

\* ChemicalOutput::operator bool: terminal || filename.size()
operatorBool(o) == o.terminal \/ Len(o.filename) # 0

\* Impl::open: close the file, check the configuration, default the header
\* to the data, open the file when a name is set (the stream may fail to
\* open), write the header row to the open file and to the terminal
open ==
    /\ LET closed == [output EXCEPT !.datafile.is_open = FALSE]
       IN IF ~openCheck(closed)
          THEN output' = [closed EXCEPT !.call = [op |-> "open", status |-> "failed"]]
          ELSE \E ok \in (IF closed.filename # "" THEN BOOLEAN ELSE {FALSE}) :
                 LET h == IF closed.header = << >> THEN closed.data ELSE closed.header
                 IN output' = Returns([closed EXCEPT
                                          !.header = h,
                                          !.datafile.is_open = ok,
                                          !.written.header =
                                              IF ok \/ closed.terminal THEN h
                                              ELSE closed.written.header,
                                          !.written.opened =
                                              ok \/ closed.terminal \/ closed.written.opened],
                                      "open")
    /\ UNCHANGED <<kineticVars, phase>>

\* Impl::close
close ==
    /\ output' = Returns([output EXCEPT !.datafile.is_open = FALSE], "close")
    /\ UNCHANGED <<kineticVars, phase>>

\* Impl::update: one value per word of data, to the open file and the terminal
update ==
    /\ LET writes == output.datafile.is_open \/ output.terminal
       IN output' = Returns([output EXCEPT
                                !.written.row = IF writes THEN output.data ELSE output.written.row,
                                !.written.updated = writes \/ output.written.updated],
                            "update")
    /\ UNCHANGED <<kineticVars, phase>>

InitOutput ==
    /\ kp = Impl
    /\ states = [sid \in StateIds |-> [T |-> 1, P |-> 2, n |-> <<0, 1, MaxAmount>>]]
    /\ pc = "idle"
    /\ ctx = NoCall
    /\ t = 0
    /\ ncalls = 0
    /\ ev = NoEval
    /\ eq = NoEq
    /\ output = ChemicalOutputImpl
    /\ phase = NoPhase

NextOutput ==
    \/ file
    \/ terminal
    \/ data
    \/ dataString
    \/ header
    \/ headerString
    \/ open
    \/ update
    \/ close

SpecOutput == InitOutput /\ [][NextOutput]_vars

\* C28: open fails exactly when neither a file name nor terminal output is
\* configured, and the conversion of a ChemicalOutput to bool is true
\* exactly when open passes that check: right after an open, the conversion
\* is true if and only if the open did not fail
C28_OpenCheck ==
    /\ (output.call.op = "open")
          => /\ (output.call.status = "failed") <=> (output.filename = "" /\ ~output.terminal)
             /\ operatorBool(output) <=> (output.call.status = "returned")
             /\ (output.call.status = "failed" => ~output.datafile.is_open)
    /\ operatorBool(output) <=> (output.terminal \/ output.filename # "")

\* open failed on a ChemicalOutput that has data and a header configured, and
\* an earlier open had written a header row
C28_Witness ==
    /\ output.call = [op |-> "open", status |-> "failed"]
    /\ output.data # << >>
    /\ output.written.opened

\* C29: when header() was never called, the header row that an open writes
\* has exactly the data quantities configured at that open as its columns,
\* also when data() was changed since an earlier open
C29_HeaderFollowsData ==
    (/\ output.call = [op |-> "open", status |-> "returned"]
     /\ output.datafile.is_open \/ output.terminal
     /\ ~output.headerCalled)
        => output.written.header = output.data

(***************************************************************************)
(* AqueousPhase                                                            *)
(***************************************************************************)
\* the species lists that a caller constructs a phase from, and the names
\* that it passes to the setActivityModel functions ("Q" is in no list)
SpeciesLists == {<<"H2O(l)", "CO2(aq)", "Na+">>, <<"H2O(l)", "Na+">>}

SpeciesNames == {"H2O(l)", "CO2(aq)", "Na+", "Q"}

ChargedNames == {"Na+"}

\* an AqueousActivity is a std::function: a callable built by one of the
\* factories, a callable of the caller, or an empty function
EmptyActivity == "empty"

UserActivities == {"user", EmptyActivity}

\* AqueousMixture::numSpecies and idxSpecies, counted from 1: the index of
\* the species with the name, or a number past the last index
phaseNumSpecies(ph) == Len(ph.species)

idxSpecies(ph, name) ==
    IF \E i \in 1..Len(ph.species) : ph.species[i] = name
    THEN CHOOSE i \in 1..Len(ph.species) : ph.species[i] = name
    ELSE Len(ph.species) + 1

idxChargedSpecies(ph) == {i \in 1..Len(ph.species) : ph.species[i] \in ChargedNames}

\* if(ispecies < numSpecies()) activities$[ispecies] = model
assignModel(ph, name, model) ==
    LET ispecies == idxSpecies(ph, name)
    IN IF ispecies <= phaseNumSpecies(ph)
       THEN [ph EXCEPT !.activities[ispecies] = model]
       ELSE ph

RECURSIVE assignSetschenowFrom(_, _)
assignSetschenowFrom(ph, k) ==
    IF k > Len(ph.species) THEN ph
    ELSE assignSetschenowFrom(assignModel(ph, ph.species[k], "Setschenow"), k + 1)

\* AqueousPhase(species): activities$(species.size()), then the Setschenow
\* model for the name of every species
AqueousPhaseOf(species) ==
    assignSetschenowFrom([constructed |-> TRUE, species |-> species,
                          activities |-> [i \in 1..Len(species) |-> EmptyActivity],
                          call |-> [op |-> "AqueousPhase", species |-> "", status |-> "returned"]],
                         1)

Called(ph, op, name) == [ph EXCEPT !.call = [op |-> op, species |-> name, status |-> "returned"]]

AqueousPhase ==
    /\ ~phase.constructed
    /\ \E species \in SpeciesLists : phase' = AqueousPhaseOf(species)
    /\ UNCHANGED <<kineticVars, output>>

setActivityModel ==
    /\ phase.constructed
    /\ \E species \in SpeciesNames, activity \in UserActivities :
         phase' = Called(assignModel(phase, species, activity), "setActivityModel", species)
    /\ UNCHANGED <<kineticVars, output>>

\* setActivityModelIdeal, setActivityModelSetschenow and
\* setActivityModelPitzerNeutralSpecies take the name of the species
setActivityModelNamed ==
    /\ phase.constructed
    /\ \E species \in SpeciesNames, model \in {"Ideal", "Setschenow", "PitzerNeutral"} :
         phase' = Called(assignModel(phase, species, model), "setActivityModel" \o model, species)
    /\ UNCHANGED <<kineticVars, output>>

\* setActivityModelDuanSunCO2, DrummondCO2 and RumpfCO2 look up "CO2(aq)"
setActivityModelCO2 ==
    /\ phase.constructed
    /\ \E model \in {"DuanSunCO2", "DrummondCO2", "RumpfCO2"} :
         phase' = Called(assignModel(phase, "CO2(aq)", model), "setActivityModel" \o model, "CO2(aq)")
    /\ UNCHANGED <<kineticVars, output>>

\* setActivityModelHKFWater and setActivityModelPitzerWater look up "H2O(l)"
setActivityModelWater ==
    /\ phase.constructed
    /\ \E model \in {"HKFWater", "PitzerWater"} :
         phase' = Called(assignModel(phase, "H2O(l)", model), "setActivityModel" \o model, "H2O(l)")
    /\ UNCHANGED <<kineticVars, output>>

\* setActivityModelHKFChargedSpecies and setActivityModelPitzerChargedSpecies
\* assign at every index of idxChargedSpecies()
setActivityModelChargedSpecies ==
    /\ phase.constructed
    /\ \E model \in {"HKFCharged", "PitzerCharged"} :
         phase' = Called([phase EXCEPT !.activities =
                             [i \in 1..Len(@) |->
                                 IF i \in idxChargedSpecies(phase) THEN model ELSE @[i]]],
                         "setActivityModel" \o model, "")
    /\ UNCHANGED <<kineticVars, output>>

\* activities(T, P, n): calls activities$[i] for every species; the call of
\* an empty std::function throws
activities ==
    /\ phase.constructed
    /\ phase' = [phase EXCEPT !.call =
                    [op |-> "activities", species |-> "",
                     status |-> IF \E i \in 1..phaseNumSpecies(phase) :
                                      phase.activities[i] = EmptyActivity
                                THEN "failed" ELSE "returned"]]
    /\ UNCHANGED <<kineticVars, output>>

InitPhase ==
    /\ kp = Impl
    /\ states = [sid \in StateIds |-> [T |-> 1, P |-> 2, n |-> <<0, 1, MaxAmount>>]]
    /\ pc = "idle"
    /\ ctx = NoCall
    /\ t = 0
    /\ ncalls = 0
    /\ ev = NoEval
    /\ eq = NoEq
    /\ output = ChemicalOutputImpl
    /\ phase = NoPhase

NextPhase ==
    \/ AqueousPhase
    \/ setActivityModel
    \/ setActivityModelNamed
    \/ setActivityModelCO2
    \/ setActivityModelWater
    \/ setActivityModelChargedSpecies
    \/ activities

SpecPhase == InitPhase /\ [][NextPhase]_vars

\* C30: in a phase constructed from a species list, every species always
\* has an activity model assigned, so that activities never calls an
\* unassigned model, and a setActivityModel call that names a species not in
\* the phase changes no entry of the table of activity models
C30_ActivityModelsAssigned ==
    /\ [](phase.constructed
            => /\ Len(phase.activities) = phaseNumSpecies(phase)
               /\ \A i \in 1..phaseNumSpecies(phase) : phase.activities[i] # EmptyActivity
               /\ (phase.call.op = "activities" => phase.call.status = "returned"))
    /\ [][(phase.constructed /\ phase' # phase
             /\ idxSpecies(phase, phase'.call.species) > phaseNumSpecies(phase)
             /\ phase'.call.species # "")
            => phase'.activities = phase.activities]_vars

====
